---- MODULE Spec2Model ----
(***************************************************************************)
(* Model of the routing tree of go-api: registration (RouteNode.Route /    *)
(* addRoute / Use), the segment classifier (getRouteTypeFromSegment,       *)
(* isPathParam, isWildcard), the path utility (getPathSegment) and lookup  *)
(* (RouteNode.Find / find / collectMiddlewares).                           *)
(*                                                                         *)
(* A path is a sequence of one-character strings, so that splitting,       *)
(* slicing and the two regular expressions are computed character by       *)
(* character as the Go code does.  The tree is an arena: `nodes` is the    *)
(* sequence of all RouteNode values, a pointer is an index into it and 0   *)
(* is the nil pointer.  Node 1 is the root.                                *)
(***************************************************************************)
EXTENDS Integers, Sequences, FiniteSets, TLC

VARIABLES nodes, last, nCalls, registered

vars == <<nodes, last, nCalls, registered>>

\* ------------------------------------------------------------------ bounds
\* number of Route and Use calls in a behaviour
MaxCalls == 3

\* ------------------------------------------------------------------ strings
Slash == "/"

\* the segments used to build the inputs
sA  == <<"a">>
sB  == <<"b">>
sC  == <<"c">>
sD  == <<"d">>
sE  == <<"e">>
sPX == <<"{", "x", "}">>
sPY == <<"{", "y", "}">>
sW  == <<"*", "w">>
sV  == <<"*", "v">>
sCX == <<":", "x">>

\* the path "/s1/s2/..." of a sequence of segments
RECURSIVE Abs(_)
Abs(segs) ==
    IF segs = <<>> THEN <<>> ELSE <<Slash>> \o Head(segs) \o Abs(Tail(segs))

\* the same path without its leading slash
Rel(segs) == IF segs = <<>> THEN <<>> ELSE Tail(Abs(segs))

\* the error values of errors.go
ErrNone == "nil"
ErrRouteNotFound == "route not found"
ErrRouteAlreadyExists == "route already exists"

\* NewRouteError
NewRouteError(method, path, err) == [Method |-> method, Path |-> path, Err |-> err]

NoError == [Method |-> "", Path |-> <<>>, Err |-> ErrNone]

\* ------------------------------------------------------------------ nodes
Nil == 0
Root == 1
NilHandler == 0

EmptyMap == [k \in {} |-> <<>>]

\* dst with every pair of src added (maps.Copy(dst, src))
mapsCopy(dst, src) ==
    [k \in DOMAIN dst \cup DOMAIN src |-> IF k \in DOMAIN src THEN src[k] ELSE dst[k]]

\* m[k] = v
mapSet(m, k, v) == [j \in DOMAIN m \cup {k} |-> IF j = k THEN v ELSE m[j]]

\* NewRouteNode that drops the bound name
NewRouteNode_unnamed(path, routeType, paramName, parent) ==
    [ path        |-> path,
      routeType   |-> routeType,
      paramName   |-> <<>>,
      parent      |-> parent,
      handlers    |-> EmptyMap,
      middlewares |-> <<>>,
      static      |-> <<>>,
      param       |-> Nil,
      wildcard    |-> Nil ]

\* NewRouteNode that leaves the parent reference nil
NewRouteNode_noParent(path, routeType, paramName, parent) ==
    [ path        |-> path,
      routeType   |-> routeType,
      paramName   |-> paramName,
      parent      |-> Nil,
      handlers    |-> EmptyMap,
      middlewares |-> <<>>,
      static      |-> <<>>,
      param       |-> Nil,
      wildcard    |-> Nil ]

NewRouteNode(path, routeType, paramName, parent) ==
    [ path        |-> path,
      routeType   |-> routeType,
      paramName   |-> paramName,
      parent      |-> parent,
      handlers    |-> EmptyMap,
      middlewares |-> <<>>,
      static      |-> <<>>,
      param       |-> Nil,
      wildcard    |-> Nil ]

\* ------------------------------------------------------------------ classifier
\* regexPathParamPattern  ^\{[^}]*\}$
isPathParam(segment) ==
    /\ Len(segment) >= 2
    /\ segment[1] = "{"
    /\ segment[Len(segment)] = "}"
    /\ \A i \in 2..(Len(segment) - 1) : segment[i] # "}"

\* regexWildcardPattern  ^\*[^/]*$
isWildcard(segment) ==
    /\ Len(segment) >= 1
    /\ segment[1] = "*"
    /\ \A i \in 2..Len(segment) : segment[i] # Slash

getRouteTypeFromSegment(segment) ==
    IF isPathParam(segment)
    THEN [routeType |-> "Param", paramName |-> SubSeq(segment, 2, Len(segment) - 1)]
    ELSE IF isWildcard(segment)
    THEN [routeType |-> "Wildcard", paramName |-> SubSeq(segment, 2, Len(segment))]
    ELSE [routeType |-> "Static", paramName |-> <<>>]

\* ------------------------------------------------------------------ path utility
\* index of the first slash of path, 0 when there is none
FirstSlash(path) ==
    IF \E i \in 1..Len(path) : path[i] = Slash
    THEN CHOOSE i \in 1..Len(path) :
            /\ path[i] = Slash
            /\ \A j \in 1..(i - 1) : path[j] # Slash
    ELSE 0

\* strings.SplitN(path, "/", 2), then the remainder gets its slash back
getPathSegment(path) ==
    LET i == FirstSlash(path) IN
    IF i = 0
    THEN [segment |-> path, remaining |-> <<>>]
    ELSE LET rest == SubSeq(path, i + 1, Len(path)) IN
         [ segment   |-> SubSeq(path, 1, i - 1),
           remaining |-> IF rest # <<>> THEN <<Slash>> \o rest ELSE <<>> ]

\* "Remove leading slash for processing"
StripSlash(path) == IF path[1] = Slash THEN Tail(path) ELSE path

\* "path == "" || path == "/"": the whole path is consumed
pathConsumed_emptyOnly(path) == path = <<>>

pathConsumed(path) == path = <<>> \/ path = <<Slash>>

\* the first element of the list of nodes st whose text is segment, Nil if none
firstWithPath(ns, st, segment) ==
    LET hits == {i \in 1..Len(st) : ns[st[i]].path = segment}
    IN IF hits = {} THEN Nil
       ELSE st[CHOOSE i \in hits : \A j \in hits : i <= j]

\* ------------------------------------------------------------------ builder
\* the scan of the static children in addRoute that never finds the child
addRouteStatic_none(ns, n, segment) == Nil

\* the scan of the static children in addRoute
addRouteStatic(ns, n, segment) == firstWithPath(ns, ns[n].static, segment)

\* the destination branch of addRoute that binds nothing for a nil handler
bindHandler_skipNil(ns, n, method, handler, middlewares) ==
    IF method \in DOMAIN ns[n].handlers
    THEN [nodes |-> ns, node |-> Nil, err |-> ErrRouteAlreadyExists]
    ELSE [ nodes |-> [ns EXCEPT ![n].middlewares = @ \o middlewares,
                                ![n].handlers = IF handler = NilHandler THEN @
                                                ELSE mapSet(@, method, handler)],
           node  |-> n,
           err   |-> ErrNone ]

\* the destination branch of addRoute with the append before the check
bindHandler_appendFirst(ns, n, method, handler, middlewares) ==
    LET ns1 == [ns EXCEPT ![n].middlewares = @ \o middlewares] IN
    IF method \in DOMAIN ns[n].handlers
    THEN [nodes |-> ns1, node |-> Nil, err |-> ErrRouteAlreadyExists]
    ELSE [ nodes |-> [ns1 EXCEPT ![n].handlers = mapSet(@, method, handler)],
           node  |-> n,
           err   |-> ErrNone ]

\* the destination branch of addRoute: n is the node the path ends at
bindHandler(ns, n, method, handler, middlewares) ==
    IF method \in DOMAIN ns[n].handlers
    THEN [nodes |-> ns, node |-> Nil, err |-> ErrRouteAlreadyExists]
    ELSE [ nodes |-> [ns EXCEPT ![n].middlewares = @ \o middlewares,
                                ![n].handlers = mapSet(@, method, handler)],
           node  |-> n,
           err   |-> ErrNone ]

\* addRoute on node n of the tree ns; the result carries the tree after the call
RECURSIVE addRoute(_, _, _, _, _, _)
addRoute(ns, n, method, path, handler, middlewares) ==
    IF pathConsumed(path)
    THEN bindHandler(ns, n, method, handler, middlewares)
    ELSE
      LET sp        == getPathSegment(StripSlash(path))
          segment   == sp.segment
          remaining == sp.remaining
          rt        == getRouteTypeFromSegment(segment)
          fresh     == Len(ns) + 1
      IN
      IF rt.routeType = "Param"
      THEN LET ns1 == IF ns[n].param = Nil
                      THEN [Append(ns, NewRouteNode(segment, rt.routeType, rt.paramName, n))
                              EXCEPT ![n].param = fresh]
                      ELSE ns
           IN addRoute(ns1, ns1[n].param, method, remaining, handler, middlewares)
      ELSE IF rt.routeType = "Wildcard"
      THEN LET ns1 == IF ns[n].wildcard = Nil
                      THEN [Append(ns, NewRouteNode(segment, rt.routeType, rt.paramName, n))
                              EXCEPT ![n].wildcard = fresh]
                      ELSE ns
           IN addRoute(ns1, ns1[n].wildcard, method, remaining, handler, middlewares)
      ELSE LET child == addRouteStatic(ns, n, segment) IN
           IF child # Nil
           THEN addRoute(ns, child, method, remaining, handler, middlewares)
           ELSE LET ns1 == [Append(ns, NewRouteNode(segment, "Static", <<>>, n))
                              EXCEPT ![n].static = Append(@, fresh)]
                IN addRoute(ns1, fresh, method, remaining, handler, middlewares)

\* RouteNode.Route that registers from the root whatever node it is called on
Route_fromRoot(ns, n, method, path, handler, middlewares) ==
    LET r == addRoute(ns, Root, method, path, handler, middlewares) IN
    IF r.err # ErrNone
    THEN [nodes |-> r.nodes, node |-> Nil, err |-> NewRouteError(method, path, r.err)]
    ELSE [nodes |-> r.nodes, node |-> r.node, err |-> NoError]

\* RouteNode.Route: the error is wrapped with the method and the path
Route(ns, n, method, path, handler, middlewares) ==
    LET r == addRoute(ns, n, method, path, handler, middlewares) IN
    IF r.err # ErrNone
    THEN [nodes |-> r.nodes, node |-> Nil, err |-> NewRouteError(method, path, r.err)]
    ELSE [nodes |-> r.nodes, node |-> r.node, err |-> NoError]

\* RouteNode.Group: a route for the empty verb and the nil handler
Group(ns, n, prefix, middlewares) == Route(ns, n, "", prefix, NilHandler, middlewares)

\* Engine.Group: the error is discarded, the group is nil when Group failed
EngineGroup(ns, prefix) ==
    LET r == Group(ns, Root, prefix, <<>>) IN [nodes |-> r.nodes, group |-> r.node]

\* RouteNode.Path that writes the separator after the root as well
RECURSIVE Path_doubleSlash(_, _)
Path_doubleSlash(ns, n) ==
    IF ns[n].parent = Nil
    THEN <<Slash>>
    ELSE Path_doubleSlash(ns, ns[n].parent) \o <<Slash>> \o ns[n].path

\* RouteNode.Path
RECURSIVE Path(_, _)
Path(ns, n) ==
    IF ns[n].parent = Nil
    THEN <<Slash>>
    ELSE LET parentPath == Path(ns, ns[n].parent) IN
         IF parentPath = <<Slash>>
         THEN <<Slash>> \o ns[n].path
         ELSE parentPath \o <<Slash>> \o ns[n].path

\* RouteNode.Use
Use(ns, n, middlewares) == [ns EXCEPT ![n].middlewares = @ \o middlewares]

\* ------------------------------------------------------------------ matcher
(***************************************************************************)
(* A Route value.  Method, Path, Handler, Middlewares and PathParams are   *)
(* the fields of the Go struct.  `node` and `trace` are history fields of  *)
(* the model: the node the handler was taken from, and the list of the     *)
(* steps find took on this Route value, in order:                          *)
(*   static   : descent into the static child `to` of `at` for `seg`       *)
(*   param    : `name` bound to `seg` at `at` before the descent into its  *)
(*              parameter child; `before` is the mapping held on entry     *)
(*   restore  : the parameter attempt of `at` that began at step `start`   *)
(*              failed; `before` is the mapping held when it began and     *)
(*              `after` the mapping left by the restore                    *)
(*   wildcard : `name` bound to `value` at `at`, `from` is the mapping it  *)
(*              was added to, `rest` the path `at` was called with         *)
(***************************************************************************)
NewRoute(method, path) ==
    [ Method      |-> method,
      Path        |-> path,
      Handler     |-> NilHandler,
      Middlewares |-> <<>>,
      PathParams  |-> EmptyMap,
      node        |-> Nil,
      trace       |-> <<>> ]

\* collectMiddlewares with the node's own middleware before its ancestors'
RECURSIVE collectMiddlewares_leafFirst(_, _, _)
collectMiddlewares_leafFirst(ns, n, middlewares) ==
    LET own == middlewares \o ns[n].middlewares IN
    IF ns[n].parent # Nil
    THEN collectMiddlewares_leafFirst(ns, ns[n].parent, own)
    ELSE own

\* collectMiddlewares: the list with the middleware from the root down to n appended
RECURSIVE collectMiddlewares(_, _, _)
collectMiddlewares(ns, n, middlewares) ==
    LET above == IF ns[n].parent # Nil
                 THEN collectMiddlewares(ns, ns[n].parent, middlewares)
                 ELSE middlewares
    IN above \o ns[n].middlewares

\* the handler lookup of find that takes whatever handler the node has
lookupHandler_anyVerb(ns, n, method) ==
    IF DOMAIN ns[n].handlers = {}
    THEN [exists |-> FALSE, handler |-> NilHandler]
    ELSE [exists |-> TRUE,
          handler |-> IF method \in DOMAIN ns[n].handlers
                      THEN ns[n].handlers[method]
                      ELSE ns[n].handlers[CHOOSE v \in DOMAIN ns[n].handlers : TRUE]]

\* the lookup in the handlers map that reports every verb as present
lookupHandler_always(ns, n, method) ==
    IF method \in DOMAIN ns[n].handlers
    THEN [exists |-> TRUE, handler |-> ns[n].handlers[method]]
    ELSE [exists |-> TRUE, handler |-> NilHandler]

\* handler, exists := n.handlers[method]
lookupHandler(ns, n, method) ==
    IF method \in DOMAIN ns[n].handlers
    THEN [exists |-> TRUE, handler |-> ns[n].handlers[method]]
    ELSE [exists |-> FALSE, handler |-> NilHandler]

\* the scan of the static children in find, skipped when there is a parameter child
findStatic_paramFirst(ns, n, segment) ==
    IF ns[n].param # Nil THEN Nil ELSE firstWithPath(ns, ns[n].static, segment)

\* the scan of the static children in find
findStatic(ns, n, segment) == firstWithPath(ns, ns[n].static, segment)

\* originalPathParams := make(...); maps.Copy(route.PathParams, originalPathParams)
snapshotPathParams(pathParams) ==
    LET originalPathParams == EmptyMap IN
    [original |-> originalPathParams, live |-> mapsCopy(pathParams, originalPathParams)]

\* the restore that leaves the live mapping as the failed attempt left it
restorePathParams_keep(route, originalPathParams) == route

\* route.PathParams = originalPathParams
restorePathParams(route, originalPathParams) ==
    [route EXCEPT !.PathParams = originalPathParams]

\* wildcardValue := segment; if remaining != "" { wildcardValue += remaining }
wildcardValue(segment, remaining) ==
    IF remaining # <<>> THEN segment \o remaining ELSE segment

\* find that goes on to the parameter and wildcard children when the static
\* child it descended into fails
RECURSIVE find_staticFallthrough(_, _, _, _, _)
find_staticFallthrough(ns, n, route, method, path) ==
    IF path = <<>> \/ path = <<Slash>>
    THEN LET h == lookupHandler(ns, n, method) IN
         IF ~h.exists
         THEN [route |-> route, err |-> ErrRouteNotFound]
         ELSE [ route |-> [route EXCEPT
                             !.Method = method,
                             !.Handler = h.handler,
                             !.Middlewares = collectMiddlewares(ns, n, @),
                             !.node = n],
                err |-> ErrNone ]
    ELSE
      LET sp        == getPathSegment(StripSlash(path))
          segment   == sp.segment
          remaining == sp.remaining
          child     == findStatic(ns, n, segment)
      IN
      LET viaStatic ==
            IF child # Nil
            THEN find_staticFallthrough(ns, child,
                   [route EXCEPT !.trace = Append(@,
                       [ev |-> "static", at |-> n, to |-> child, seg |-> segment])],
                   method, remaining)
            ELSE [route |-> route, err |-> ErrRouteNotFound]
      IN
      IF viaStatic.err = ErrNone
      THEN viaStatic
      ELSE
        LET route1 == viaStatic.route
            tried ==
              IF ns[n].param # Nil
              THEN LET snap  == snapshotPathParams(route1.PathParams)
                       name  == ns[ns[n].param].paramName
                       start == Len(route1.trace) + 1
                       r1    == [route1 EXCEPT
                                   !.PathParams = mapSet(snap.live, name, segment),
                                   !.trace = Append(@,
                                       [ev |-> "param", at |-> n, name |-> name,
                                        seg |-> segment, before |-> route1.PathParams])]
                       res   == find_staticFallthrough(ns, ns[n].param, r1, method, remaining)
                   IN IF res.err = ErrNone
                      THEN res
                      ELSE LET r2 == restorePathParams(res.route, snap.original) IN
                           [ route |-> [r2 EXCEPT !.trace = Append(@,
                                          [ev |-> "restore", at |-> n, start |-> start,
                                           before |-> route1.PathParams,
                                           after |-> r2.PathParams])],
                             err |-> res.err ]
              ELSE [route |-> route1, err |-> ErrRouteNotFound]
        IN
        IF tried.err = ErrNone
        THEN tried
        ELSE IF ns[n].wildcard # Nil
        THEN LET value == wildcardValue(segment, remaining)
                 name  == ns[ns[n].wildcard].paramName
                 r3    == [tried.route EXCEPT
                             !.PathParams = mapSet(@, name, value),
                             !.trace = Append(@,
                                 [ev |-> "wildcard", at |-> n, name |-> name,
                                  value |-> value, from |-> tried.route.PathParams,
                                  rest |-> path])]
             IN find_staticFallthrough(ns, ns[n].wildcard, r3, method, <<>>)
        ELSE [route |-> tried.route, err |-> ErrRouteNotFound]

\* find on node n; the result carries the Route value as the call left it,
\* also when it failed (the caller keeps its pointer to it)
RECURSIVE find(_, _, _, _, _)
find(ns, n, route, method, path) ==
    IF path = <<>> \/ path = <<Slash>>
    THEN LET h == lookupHandler(ns, n, method) IN
         IF ~h.exists
         THEN [route |-> route, err |-> ErrRouteNotFound]
         ELSE [ route |-> [route EXCEPT
                             !.Method = method,
                             !.Handler = h.handler,
                             !.Middlewares = collectMiddlewares(ns, n, @),
                             !.node = n],
                err |-> ErrNone ]
    ELSE
      LET sp        == getPathSegment(StripSlash(path))
          segment   == sp.segment
          remaining == sp.remaining
          child     == findStatic(ns, n, segment)
      IN
      IF child # Nil
      THEN find(ns, child,
                [route EXCEPT !.trace = Append(@,
                    [ev |-> "static", at |-> n, to |-> child, seg |-> segment])],
                method, remaining)
      ELSE
        LET tried ==
              IF ns[n].param # Nil
              THEN LET snap  == snapshotPathParams(route.PathParams)
                       name  == ns[ns[n].param].paramName
                       start == Len(route.trace) + 1
                       r1    == [route EXCEPT
                                   !.PathParams = mapSet(snap.live, name, segment),
                                   !.trace = Append(@,
                                       [ev |-> "param", at |-> n, name |-> name,
                                        seg |-> segment, before |-> route.PathParams])]
                       res   == find(ns, ns[n].param, r1, method, remaining)
                   IN IF res.err = ErrNone
                      THEN res
                      ELSE LET r2 == restorePathParams(res.route, snap.original) IN
                           [ route |-> [r2 EXCEPT !.trace = Append(@,
                                          [ev |-> "restore", at |-> n, start |-> start,
                                           before |-> route.PathParams,
                                           after |-> r2.PathParams])],
                             err |-> res.err ]
              ELSE [route |-> route, err |-> ErrRouteNotFound]
        IN
        IF tried.err = ErrNone
        THEN tried
        ELSE IF ns[n].wildcard # Nil
        THEN LET value == wildcardValue(segment, remaining)
                 name  == ns[ns[n].wildcard].paramName
                 r3    == [tried.route EXCEPT
                             !.PathParams = mapSet(@, name, value),
                             !.trace = Append(@,
                                 [ev |-> "wildcard", at |-> n, name |-> name,
                                  value |-> value, from |-> tried.route.PathParams,
                                  rest |-> path])]
             IN find(ns, ns[n].wildcard, r3, method, <<>>)
        ELSE [route |-> tried.route, err |-> ErrRouteNotFound]

\* RouteNode.Find: nil and the wrapped error when find fails.  `trace` keeps
\* the steps of the lookup also when it fails.
Find(ns, n, method, path) ==
    LET r == find(ns, n, NewRoute(method, path), method, path) IN
    IF r.err # ErrNone
    THEN [ok |-> FALSE, route |-> NewRoute(method, path),
          err |-> NewRouteError(method, path, r.err), trace |-> r.route.trace]
    ELSE [ok |-> TRUE, route |-> [r.route EXCEPT !.trace = <<>>], err |-> NoError,
          trace |-> r.route.trace]

\* ------------------------------------------------------- find, step by step
\* One Find call in progress: `route` is the Route value the call allocated,
\* `n` and `rest` the node and the path of the innermost find, `stack` the
\* finds that wait for their parameter child, `err` what the innermost find
\* returned.
NewLookup(method, path) ==
    [ method |-> method, path |-> path, route |-> NewRoute(method, path),
      stack |-> <<>>, pc |-> "call", n |-> Root, rest |-> path, err |-> ErrNone ]

\* the wildcard branch of find on node n
tryWildcard(ns, p, n, segment, remaining) ==
    IF ns[n].wildcard # Nil
    THEN [p EXCEPT !.route.PathParams =
                       mapSet(@, ns[ns[n].wildcard].paramName,
                              wildcardValue(segment, remaining)),
                   !.n = ns[n].wildcard, !.rest = <<>>, !.pc = "call"]
    ELSE [p EXCEPT !.pc = "return", !.err = ErrRouteNotFound]

\* one step of find for the lookup p on the tree ns
stepFind(ns, p) ==
    IF p.pc = "call"
    THEN IF p.rest = <<>> \/ p.rest = <<Slash>>
         THEN LET h == lookupHandler(ns, p.n, p.method) IN
              IF ~h.exists
              THEN [p EXCEPT !.pc = "return", !.err = ErrRouteNotFound]
              ELSE [p EXCEPT !.route.Method = p.method,
                             !.route.Handler = h.handler,
                             !.pc = "collect"]
         ELSE LET sp        == getPathSegment(StripSlash(p.rest))
                  segment   == sp.segment
                  remaining == sp.remaining
                  child     == findStatic(ns, p.n, segment)
              IN IF child # Nil
                 THEN [p EXCEPT !.n = child, !.rest = remaining]
                 ELSE IF ns[p.n].param # Nil
                 THEN LET snap == snapshotPathParams(p.route.PathParams) IN
                      [p EXCEPT !.route.PathParams =
                                    mapSet(snap.live, ns[ns[p.n].param].paramName, segment),
                                !.stack = Append(@, [ n |-> p.n, segment |-> segment,
                                                      remaining |-> remaining,
                                                      original |-> snap.original ]),
                                !.n = ns[p.n].param, !.rest = remaining]
                 ELSE tryWildcard(ns, p, p.n, segment, remaining)
    ELSE IF p.pc = "collect"
    THEN [p EXCEPT !.route.Middlewares = collectMiddlewares(ns, p.n, @),
                   !.route.node = p.n,
                   !.pc = "return", !.err = ErrNone]
    ELSE IF p.pc = "return"
    THEN IF p.stack = <<>>
         THEN [p EXCEPT !.pc = "done"]
         ELSE LET f      == p.stack[Len(p.stack)]
                  popped == [p EXCEPT !.stack = SubSeq(@, 1, Len(@) - 1)]
              IN IF p.err = ErrNone
                 THEN popped
                 ELSE tryWildcard(ns,
                                  [popped EXCEPT !.route = restorePathParams(@, f.original)],
                                  f.n, f.segment, f.remaining)
    ELSE p

\* a step of lookup i that writes its captures into one mapping all lookups share
stepLookups_sharedParams(ns, procs, i) ==
    LET q == stepFind(ns, procs[i]) IN
    [j \in DOMAIN procs |->
       IF j = i THEN q ELSE [procs[j] EXCEPT !.route.PathParams = q.route.PathParams]]

\* a step of lookup i among the lookups procs in progress on the tree ns
stepLookups(ns, procs, i) == [procs EXCEPT ![i] = stepFind(ns, procs[i])]

\* Engine.ServeHTTP on the tree ns: `lookups` counts the Find calls, `ran` lists
\* the functions invoked in order, `PathParams` is the mapping of the context
ServeHTTP(ns, method, path) ==
    LET res == Find(ns, Root, method, path) IN
    IF ~res.ok
    THEN [ lookups |-> <<res>>, status |-> "NotFound", ran |-> <<>>,
           PathParams |-> EmptyMap ]
    ELSE [ lookups |-> <<res>>, status |-> "Handled",
           ran |-> <<res.route.Handler>>,
           PathParams |-> res.route.PathParams ]

\* ------------------------------------------------------------------ inputs
Verbs == {"GET", "POST"}

\* the paths routes are registered with
RoutePaths ==
    { <<Slash>>, Rel(<<sA>>), Abs(<<sA>>), Abs(<<sA, sB>>),
      Abs(<<sA, sPX>>), Abs(<<sA, sW>>), Abs(<<sPX, sPY>>), Abs(<<sPX, sW>>),
      Abs(<<sA, sCX>>) }

\* the paths that are looked up: the registered ones as written, and others
FindPaths ==
    RoutePaths \cup
    { <<>>, Rel(<<sA, sB>>), Abs(<<sA, sC>>), Rel(<<sA, sC>>),
      Abs(<<sA, sC>>) \o <<Slash>>, Abs(<<sA, sC, sD, sE>>),
      Abs(<<sC, sD>>), Abs(<<sC, sD, sE>>) }

\* ------------------------------------------------------------------ state machine
(***************************************************************************)
(* nodes      : the tree (the arena of RouteNode values)                   *)
(* last       : the last call made and what it returned                    *)
(* nCalls     : the number of Route and Use calls made.  Call k supplies   *)
(*              the handler k and the middleware <<"route", k>> when it is *)
(*              a Route call, the middleware <<"use", k>> when it is a Use *)
(*              call, so every handler and middleware value is distinct    *)
(* registered : history of the registrations that returned no error        *)
(***************************************************************************)
Init ==
    /\ nodes = <<NewRouteNode(<<>>, "None", <<>>, Nil)>>
    /\ last = [op |-> "New"]
    /\ nCalls = 0
    /\ registered = {}

\* the nodes a caller holds a pointer to: the root and the nodes Route returned
Held == {Root} \cup {r.node : r \in registered}

\* root.Route(method, path, handler, middleware)
RouteCall ==
    /\ nCalls < MaxCalls
    /\ \E method \in Verbs, path \in RoutePaths :
         LET handler     == nCalls + 1
             middlewares == << <<"route", handler>> >>
             r           == Route(nodes, Root, method, path, handler, middlewares)
         IN /\ nodes' = r.nodes
            /\ last' = [ op |-> "Route", method |-> method, path |-> path,
                         handler |-> handler, middlewares |-> middlewares,
                         node |-> r.node, err |-> r.err, before |-> nodes ]
            /\ registered' =
                 IF r.err.Err = ErrNone
                 THEN registered \cup
                        {[method |-> method, path |-> path, handler |-> handler,
                          node |-> r.node]}
                 ELSE registered
    /\ nCalls' = nCalls + 1

\* node.Use(middleware) on a node the caller holds
UseCall ==
    /\ nCalls < MaxCalls
    /\ \E n \in Held :
         /\ nodes' = Use(nodes, n, << <<"use", nCalls + 1>> >>)
         /\ last' = [op |-> "Use", node |-> n, before |-> nodes]
    /\ nCalls' = nCalls + 1
    /\ UNCHANGED registered

\* root.Find(method, path).  A lookup writes nothing the next call reads, so a
\* lookup made right after another one reaches only states the first one
\* reaches as well; lookups are taken from the state a registration left.
FindCall ==
    /\ last.op # "Find"
    /\ \E method \in Verbs, path \in FindPaths :
         last' = [ op |-> "Find", method |-> method, path |-> path,
                   res |-> Find(nodes, Root, method, path) ]
    /\ UNCHANGED <<nodes, nCalls, registered>>

Next == RouteCall \/ UseCall \/ FindCall

Spec == Init /\ [][Next]_vars

\* ------------------------------------------------------------------ properties
IsFind == last.op = "Find"
IsRoute == last.op = "Route"

\* the segments of a path, split as addRoute and find split it
RECURSIVE SegmentsOf(_)
SegmentsOf(path) ==
    IF path = <<>> \/ path = <<Slash>>
    THEN <<>>
    ELSE LET sp == getPathSegment(StripSlash(path))
         IN <<sp.segment>> \o SegmentsOf(sp.remaining)

KindOf(segment) == getRouteTypeFromSegment(segment).routeType

\* the static children of n whose text is segment
StaticMatches(n, segment) ==
    {i \in 1..Len(nodes[n].static) : nodes[nodes[n].static[i]].path = segment}

\* the first segment of the path a node was called with
FirstSegment(path) == getPathSegment(StripSlash(path)).segment

\* the node a successful lookup with trace tr ends at
EndOf(tr) ==
    IF tr = <<>> THEN Root
    ELSE LET e == tr[Len(tr)] IN
         IF e.ev = "static" THEN e.to
         ELSE IF e.ev = "param" THEN nodes[e.at].param
         ELSE IF e.ev = "wildcard" THEN nodes[e.at].wildcard
         ELSE Nil

Registered(method, path) ==
    {r \in registered : r.method = method /\ r.path = path}

\* C1 (order): in every lookup, a node's parameter child is tried only when no
\* static child has the segment's text, its wildcard child only when moreover
\* the parameter child is absent or its attempt has just failed, a static
\* descent adds no capture, and a successful lookup returns the node the last
\* step went to.
PriorityOrder ==
    IsFind =>
      LET tr == last.res.trace IN
      /\ \A i \in 1..Len(tr) :
           /\ tr[i].ev = "static" =>
                /\ StaticMatches(tr[i].at, tr[i].seg) # {}
                /\ tr[i].to = firstWithPath(nodes, nodes[tr[i].at].static, tr[i].seg)
           /\ tr[i].ev = "param" => StaticMatches(tr[i].at, tr[i].seg) = {}
           /\ tr[i].ev = "wildcard" =>
                /\ StaticMatches(tr[i].at, FirstSegment(tr[i].rest)) = {}
                /\ \/ nodes[tr[i].at].param = Nil
                   \/ /\ i > 1
                      /\ tr[i - 1].ev = "restore"
                      /\ tr[i - 1].at = tr[i].at
      /\ last.res.ok =>
           /\ last.res.route.node = EndOf(tr)
           /\ (\A i \in 1..Len(tr) : tr[i].ev = "static")
                => last.res.route.PathParams = EmptyMap

\* C1 (example): with /a/b, /a/{x} and /a/*w registered for GET, GET /a/b
\* returns the static handler and no capture, GET /a/c the parameter handler
\* and {x: c}, GET /a/c/d/e the wildcard handler and {w: c/d/e}.
PriorityExample ==
    (IsFind /\ last.method = "GET") =>
      \A rs \in Registered("GET", Abs(<<sA, sB>>)),
         rp \in Registered("GET", Abs(<<sA, sPX>>)),
         rw \in Registered("GET", Abs(<<sA, sW>>)) :
        /\ last.path = Abs(<<sA, sB>>) =>
             /\ last.res.ok
             /\ last.res.route.Handler = rs.handler
             /\ last.res.route.PathParams = EmptyMap
        /\ last.path = Abs(<<sA, sC>>) =>
             /\ last.res.ok
             /\ last.res.route.Handler = rp.handler
             /\ last.res.route.PathParams = (<<"x">> :> sC)
        /\ last.path = Abs(<<sA, sC, sD, sE>>) =>
             /\ last.res.ok
             /\ last.res.route.Handler = rw.handler
             /\ last.res.route.PathParams = (<<"w">> :> Rel(<<sC, sD, sE>>))

\* C1: find tries the children of a node in the order static, parameter,
\* wildcard, and the three-route example resolves as the priority says.
C1_Priority == PriorityOrder /\ PriorityExample

\* C1 witness: the three routes are registered and GET /a/c/d/e was resolved
\* by the wildcard child after the parameter attempt failed.
C1_Witness ==
    /\ IsFind /\ last.method = "GET" /\ last.path = Abs(<<sA, sC, sD, sE>>)
    /\ Registered("GET", Abs(<<sA, sB>>)) # {}
    /\ Registered("GET", Abs(<<sA, sPX>>)) # {}
    /\ Registered("GET", Abs(<<sA, sW>>)) # {}
    /\ last.res.ok
    /\ nodes[last.res.route.node].routeType = "Wildcard"
    /\ \E i \in 1..Len(last.res.trace) : last.res.trace[i].ev = "restore"

\* C2: a Route call for a (verb, path) registered before returns
\* RouteAlreadyExists and no node; a call that returns RouteAlreadyExists
\* leaves the tree as it was (no middleware appended, no node created); every
\* handler bound by a successful registration stays bound for its verb.
C2_DuplicateLeavesTree ==
    /\ IsRoute =>
         /\ (\E r \in Registered(last.method, last.path) : r.handler # last.handler)
              => last.err = NewRouteError(last.method, last.path, ErrRouteAlreadyExists)
         /\ last.err.Err = ErrRouteAlreadyExists =>
              /\ nodes = last.before
              /\ last.node = Nil
    /\ \A r \in registered :
         /\ r.method \in DOMAIN nodes[r.node].handlers
         /\ nodes[r.node].handlers[r.method] = r.handler

\* C2 witness: a duplicate registration has just been refused.
C2_Witness ==
    /\ IsRoute
    /\ last.err.Err = ErrRouteAlreadyExists
    /\ \E r \in Registered(last.method, last.path) : r.handler # last.handler

\* the name/value pair a param or wildcard step binds
BindOf(e) == <<e.name, IF e.ev = "param" THEN e.seg ELSE e.value>>

IsBind(e) == e.ev \in {"param", "wildcard"}

\* the steps of tr that lie inside a parameter attempt that failed
FailedSteps(tr) ==
    UNION { tr[j].start..j : j \in {k \in 1..Len(tr) : tr[k].ev = "restore"} }

\* the pairs bound during failed parameter attempts
FailedBinds(tr) == {BindOf(tr[k]) : k \in {j \in FailedSteps(tr) : IsBind(tr[j])}}

\* the pairs bound on the path that resolved the lookup
KeptBinds(tr) ==
    {BindOf(tr[k]) : k \in {j \in (1..Len(tr)) \ FailedSteps(tr) : IsBind(tr[j])}}

\* a mapping as a set of pairs
PairsOf(m) == {<<k, m[k]>> : k \in DOMAIN m}

\* C3: whenever a parameter attempt fails and the wildcard child is tried
\* next, the mapping the wildcard capture is added to equals the mapping held
\* immediately before the parameter attempt.
C3_RestoreIsExact ==
    IsFind =>
      LET tr == last.res.trace IN
      \A i \in 2..Len(tr) :
        (tr[i].ev = "wildcard" /\ tr[i - 1].ev = "restore" /\ tr[i - 1].at = tr[i].at)
          => tr[i].from = tr[i - 1].before

\* C4: when a lookup in which a parameter attempt failed is resolved through
\* a wildcard child, the returned mapping holds no pair that was bound during
\* a failed attempt (other than a pair the resolving path bound itself).
C4_NoLeak ==
    (/\ IsFind
     /\ last.res.ok
     /\ nodes[last.res.route.node].routeType = "Wildcard"
     /\ FailedSteps(last.res.trace) # {})
      => PairsOf(last.res.route.PathParams)
           \cap (FailedBinds(last.res.trace) \ KeptBinds(last.res.trace)) = {}

\* C4 witness: a lookup resolved by a wildcard child after a parameter attempt
\* that had bound a value failed.
C4_Witness ==
    /\ IsFind
    /\ last.res.ok
    /\ nodes[last.res.route.node].routeType = "Wildcard"
    /\ FailedBinds(last.res.trace) \ KeptBinds(last.res.trace) # {}

\* the registrations the last lookup repeats: same verb, same path string
Repeats == IF IsFind THEN Registered(last.method, last.path) ELSE {}

\* C5 as stated: looking up a registered (verb, path) with the same path
\* string succeeds and returns the handler of that registration, whatever
\* else is registered.
C5_RoundTripAll ==
    \A r \in Repeats : last.res.ok /\ last.res.route.Handler = r.handler

NoWildcardSegment(path) ==
    \A i \in 1..Len(SegmentsOf(path)) : KindOf(SegmentsOf(path)[i]) # "Wildcard"

\* the only wildcard segment of path is its last segment
WildcardLastOnly(path) ==
    LET segs == SegmentsOf(path) IN
    /\ segs # <<>>
    /\ \A i \in 1..Len(segs) : (KindOf(segs[i]) = "Wildcard") <=> (i = Len(segs))

\* the parameter sibling of node n resolves the verb
ShadowedByParam(n, method) ==
    LET sibling == nodes[nodes[n].parent].param IN
    /\ sibling # Nil
    /\ method \in DOMAIN nodes[sibling].handlers

\* C5 amended: the round trip holds for a registered path without wildcard
\* segment, and for one whose only wildcard segment is the last one unless the
\* parameter sibling of the wildcard node has a handler for the verb.
C5_RoundTrip ==
    \A r \in Repeats :
      (\/ NoWildcardSegment(r.path)
       \/ WildcardLastOnly(r.path) /\ ~ShadowedByParam(r.node, r.method))
        => last.res.ok /\ last.res.route.Handler = r.handler

\* C5 witness: round trips of a parameter path and of a wildcard path while
\* other routes are registered.
C5_Witness ==
    /\ Cardinality(registered) >= 2
    /\ \E r \in Repeats :
         /\ WildcardLastOnly(r.path)
         /\ nodes[nodes[r.node].parent].param # Nil
         /\ last.res.ok
         /\ last.res.route.Handler = r.handler

\* C6: when a lookup is resolved through a wildcard child, the value bound is
\* the whole rest of the looked-up path from the current segment on, character
\* for character, and it is the only entry added by that step.
C6_WildcardVerbatim ==
    (IsFind /\ last.res.ok) =>
      LET tr == last.res.trace IN
      (tr # <<>> /\ tr[Len(tr)].ev = "wildcard") =>
        LET e == tr[Len(tr)] IN
        /\ e.value = StripSlash(e.rest)
        /\ last.res.route.PathParams = mapSet(e.from, e.name, StripSlash(e.rest))

\* C7: for a route registered as /a/:x, looking up /a/c succeeds and returns
\* exactly {x: c}.
C7_ColonParameter ==
    (/\ IsFind
     /\ last.path = Abs(<<sA, sC>>)
     /\ Registered(last.method, Abs(<<sA, sCX>>)) # {})
      => /\ last.res.ok
         /\ last.res.route.PathParams = (<<"x">> :> sC)

\* the nodes from the root down to n
RECURSIVE RootPath(_)
RootPath(n) == IF n = Nil THEN <<>> ELSE Append(RootPath(nodes[n].parent), n)

\* the concatenation of the local middleware of a list of nodes
RECURSIVE LocalMiddlewares(_)
LocalMiddlewares(ns) ==
    IF ns = <<>> THEN <<>>
    ELSE nodes[Head(ns)].middlewares \o LocalMiddlewares(Tail(ns))

\* the node a middleware value is attached to (every value is attached once)
OwnerOf(mw) ==
    CHOOSE n \in 1..Len(nodes) :
      \E i \in 1..Len(nodes[n].middlewares) : nodes[n].middlewares[i] = mw

\* n is a proper ancestor of m
IsAncestor(n, m) ==
    /\ n # m
    /\ \E i \in 1..Len(RootPath(m)) : RootPath(m)[i] = n

\* C8: the chain of a successful lookup is the concatenation, from the root
\* down to the matched node, of each node's local middleware; middleware of an
\* ancestor precedes middleware of a descendant, a node's own middleware keeps
\* the order of attachment, and no middleware of a node off the path appears.
C8_MiddlewareChain ==
    /\ (IsFind /\ last.res.ok) =>
         LET chain == last.res.route.Middlewares
             n     == last.res.route.node
         IN /\ chain = LocalMiddlewares(RootPath(n))
            /\ \A i, j \in 1..Len(chain) :
                 i < j =>
                   \/ IsAncestor(OwnerOf(chain[i]), OwnerOf(chain[j]))
                   \/ OwnerOf(chain[i]) = OwnerOf(chain[j]) /\ chain[i][2] < chain[j][2]
            /\ \A i \in 1..Len(chain) :
                 OwnerOf(chain[i]) = n \/ IsAncestor(OwnerOf(chain[i]), n)
            /\ \A m \in 1..Len(nodes) :
                 (m = n \/ IsAncestor(m, n)) =>
                   \A k \in 1..Len(nodes[m].middlewares) :
                     \E i \in 1..Len(chain) : chain[i] = nodes[m].middlewares[k]
    /\ \A n \in 1..Len(nodes) :
         \A i, j \in 1..Len(nodes[n].middlewares) :
           i < j => nodes[n].middlewares[i][2] < nodes[n].middlewares[j][2]

\* C8 witness: a chain with middleware of an ancestor and of the matched node,
\* one of them attached with Use after the route was registered.
C8_Witness ==
    /\ IsFind /\ last.res.ok
    /\ LET chain == last.res.route.Middlewares IN
       /\ Len(chain) >= 2
       /\ OwnerOf(chain[1]) # last.res.route.node
       /\ \E i \in 1..Len(chain) :
            /\ chain[i][1] = "use"
            /\ \E r \in Repeats : r.handler < chain[i][2]

\* every segment of path is static
StaticOnly(path) ==
    \A i \in 1..Len(SegmentsOf(path)) : KindOf(SegmentsOf(path)[i]) = "Static"

\* C9: a successful lookup returns the handler bound for the looked-up verb at
\* the matched node; a failed one returns RouteNotFound wrapped with the verb
\* and path looked up; for a static path registered under some verbs, each
\* registered verb finds its own handler and any other verb finds nothing.
C9_PerVerb ==
    IsFind =>
      /\ last.res.ok =>
           /\ last.res.route.Method = last.method
           /\ last.method \in DOMAIN nodes[last.res.route.node].handlers
           /\ last.res.route.Handler = nodes[last.res.route.node].handlers[last.method]
      /\ ~last.res.ok =>
           last.res.err = NewRouteError(last.method, last.path, ErrRouteNotFound)
      /\ \A r \in registered :
           (r.path = last.path /\ StaticOnly(r.path)) =>
             IF \E q \in registered : q.node = r.node /\ q.method = last.method
             THEN /\ last.res.ok
                  /\ \E q \in registered :
                       /\ q.node = r.node
                       /\ q.method = last.method
                       /\ last.res.route.Handler = q.handler
             ELSE ~last.res.ok

\* C9 witness: a path registered for one verb only was looked up with the
\* other verb and was not found.
C9_Witness ==
    /\ IsFind
    /\ ~last.res.ok
    /\ \E r \in registered :
         /\ r.path = last.path
         /\ StaticOnly(r.path)
         /\ r.method # last.method
         /\ ~\E q \in registered : q.node = r.node /\ q.method = last.method
         /\ nodes[r.node].handlers # EmptyMap

\* the same path with the leading slash removed, or added when it has none
Toggle(path) ==
    IF path # <<>> /\ path[1] = Slash THEN Tail(path) ELSE <<Slash>> \o path

\* C10: a Route call gives the same tree, node and error kind as the same call
\* with the leading slash of the path toggled would have given, and after a
\* successful call the toggled path is refused as already existing; a Find call
\* returns the same handler, captures, middleware chain and outcome as the
\* lookup of the toggled path; "" and "/" denote the node called on.
C10_LeadingSlash ==
    /\ IsRoute =>
         LET alt == Route(last.before, Root, last.method, Toggle(last.path),
                          last.handler, last.middlewares)
         IN /\ alt.nodes = nodes
            /\ alt.node = last.node
            /\ alt.err.Err = last.err.Err
            /\ last.err.Err = ErrNone =>
                 Route(nodes, Root, last.method, Toggle(last.path),
                       last.handler + 1, <<>>).err.Err = ErrRouteAlreadyExists
            /\ (last.path \in {<<>>, <<Slash>>} /\ last.err.Err = ErrNone)
                 => last.node = Root
    /\ IsFind =>
         LET alt == Find(nodes, Root, last.method, Toggle(last.path)) IN
         /\ alt.ok = last.res.ok
         /\ alt.route.Handler = last.res.route.Handler
         /\ alt.route.PathParams = last.res.route.PathParams
         /\ alt.route.Middlewares = last.res.route.Middlewares
         /\ alt.route.node = last.res.route.node
         /\ (last.path \in {<<>>, <<Slash>>} /\ last.res.ok) => last.res.route.node = Root

\* C10 witness: "a" was refused as already existing after "/a" was registered,
\* or the other way round.
C10_Witness ==
    /\ IsRoute
    /\ last.path \in {Rel(<<sA>>), Abs(<<sA>>)}
    /\ last.err.Err = ErrRouteAlreadyExists
    /\ Registered(last.method, Toggle(last.path)) # {}
    /\ Registered(last.method, last.path) = {}

\* ------------------------------------------------------------------ groups
(***************************************************************************)
(* SpecGroup: the tree is built with Group and Engine.Group on the root    *)
(* and with Route on the root or on a node Group returned.  The entries of *)
(* `registered` and the Route records of `last` carry the node the call    *)
(* was made on in `on`.                                                    *)
(***************************************************************************)
GroupVerbs == {"GET"}

GroupPrefixes == { Abs(<<sA>>), Abs(<<sA>>) \o <<Slash>>, Rel(<<sA>>) }

GroupRoutePaths ==
    { Abs(<<sB>>), Rel(<<sB>>), Abs(<<sPX>>), Abs(<<sPY>>), Abs(<<sW>>) }

\* the lookups the trees of SpecGroup are compared on
GroupFindPaths ==
    { Abs(<<sB>>), Abs(<<sC>>), Abs(<<sA>>), Abs(<<sA, sB>>), Abs(<<sA, sC>>),
      Abs(<<sA, sC, sD>>), Abs(<<sA, <<>>, sB>>), Abs(<<sA \o sB>>),
      Abs(<<sA, <<>>, sC>>), Abs(<<sA \o sC>>) }

\* the nodes Group returned
GroupNodes == {r.node : r \in {q \in registered : q.method = ""}}

\* root.Group(prefix, middleware)
GroupCall ==
    /\ nCalls < MaxCalls
    /\ \E prefix \in GroupPrefixes :
         LET middlewares == << <<"group", nCalls + 1>> >>
             r           == Group(nodes, Root, prefix, middlewares)
         IN /\ nodes' = r.nodes
            /\ last' = [ op |-> "Group", method |-> "", path |-> prefix,
                         handler |-> NilHandler, middlewares |-> middlewares,
                         on |-> Root, node |-> r.node, err |-> r.err,
                         before |-> nodes ]
            /\ registered' =
                 IF r.err.Err = ErrNone
                 THEN registered \cup
                        {[method |-> "", path |-> prefix, handler |-> NilHandler,
                          node |-> r.node, on |-> Root]}
                 ELSE registered
    /\ nCalls' = nCalls + 1

\* engine.Group(prefix)
EngineGroupCall ==
    /\ nCalls < MaxCalls
    /\ \E prefix \in GroupPrefixes :
         LET r == EngineGroup(nodes, prefix) IN
         /\ nodes' = r.nodes
         /\ last' = [ op |-> "EngineGroup", method |-> "", path |-> prefix,
                      on |-> Root, group |-> r.group, before |-> nodes ]
         /\ registered' =
              IF r.group # Nil
              THEN registered \cup
                     {[method |-> "", path |-> prefix, handler |-> NilHandler,
                       node |-> r.group, on |-> Root]}
              ELSE registered
    /\ nCalls' = nCalls + 1

\* n.Route(method, path, handler, middleware) on the root or on a group
NodeRouteCall ==
    /\ nCalls < MaxCalls
    /\ \E n \in {Root} \cup GroupNodes, method \in GroupVerbs, path \in GroupRoutePaths :
         LET handler     == nCalls + 1
             middlewares == << <<"route", handler>> >>
             r           == Route(nodes, n, method, path, handler, middlewares)
         IN /\ nodes' = r.nodes
            /\ last' = [ op |-> "Route", method |-> method, path |-> path,
                         handler |-> handler, middlewares |-> middlewares,
                         on |-> n, node |-> r.node, err |-> r.err, before |-> nodes ]
            /\ registered' =
                 IF r.err.Err = ErrNone
                 THEN registered \cup
                        {[method |-> method, path |-> path, handler |-> handler,
                          node |-> r.node, on |-> n]}
                 ELSE registered
    /\ nCalls' = nCalls + 1

NextGroup == GroupCall \/ EngineGroupCall \/ NodeRouteCall \/ UseCall

SpecGroup == Init /\ [][NextGroup]_vars

\* the nodes n holds: its static children, its parameter child, its wildcard child
ChildrenOf(n) ==
    {nodes[n].static[i] : i \in 1..Len(nodes[n].static)}
      \cup ({nodes[n].param, nodes[n].wildcard} \ {Nil})

\* the nodes of a kind whose parent reference is n
KindChildren(n, kind) ==
    {m \in 1..Len(nodes) : nodes[m].parent = n /\ nodes[m].routeType = kind}

\* C11 (tree shape): after any sequence of Route, Group and Use calls,
\* successful or failed, every node has at most one parameter child and at
\* most one wildcard child, the texts of its static children are pairwise
\* distinct, the parent reference of every child is the node that holds it,
\* and the root keeps kind None with empty text.
C11_TreeShape ==
    /\ nodes[Root].routeType = "None"
    /\ nodes[Root].path = <<>>
    /\ nodes[Root].parent = Nil
    /\ \A n \in 1..Len(nodes) :
         /\ Cardinality(KindChildren(n, "Param")) <= 1
         /\ Cardinality(KindChildren(n, "Wildcard")) <= 1
         /\ nodes[n].param # Nil => nodes[n].param \in KindChildren(n, "Param")
         /\ nodes[n].wildcard # Nil => nodes[n].wildcard \in KindChildren(n, "Wildcard")
         /\ \A i \in 1..Len(nodes[n].static) :
              /\ nodes[n].static[i] \in KindChildren(n, "Static")
              /\ \A j \in 1..Len(nodes[n].static) :
                   i # j => nodes[nodes[n].static[i]].path # nodes[nodes[n].static[j]].path
         /\ n # Root => nodes[n].parent # Nil /\ n \in ChildrenOf(nodes[n].parent)

\* a failed call on a tree in which a node holds a static and a parameter child
C11_Witness ==
    /\ last.op \in {"Route", "Group"}
    /\ last.err.Err = ErrRouteAlreadyExists
    /\ \E n \in 1..Len(nodes) :
         nodes[n].param # Nil /\ Len(nodes[n].static) >= 1

\* what a lookup gave: found or not and, when found, the handler and the captures
OutcomeOf(res) ==
    IF res.ok
    THEN [ok |-> TRUE, handler |-> res.route.Handler, captures |-> res.route.PathParams]
    ELSE [ok |-> FALSE]

\* the trees ns1 and ns2 answer every lookup of a non-empty verb alike
SameLookups(ns1, ns2) ==
    \A method \in Verbs, path \in GroupFindPaths :
       OutcomeOf(Find(ns1, Root, method, path)) = OutcomeOf(Find(ns2, Root, method, path))

\* the Group calls on the root that returned node n
GroupsAt(n) == {g \in registered : g.method = "" /\ g.on = Root /\ g.node = n}

\* the tree Route(method, prefix + path, ...) on the root gives in place of the last call
ComposedTree(prefix) ==
    Route(last.before, Root, last.method, prefix \o last.path,
          last.handler, last.middlewares).nodes

\* the prefix and the path meet in exactly one slash, or the path is empty
MeetInOneSlash(prefix, path) ==
    /\ prefix = <<>> \/ prefix[Len(prefix)] # Slash
    /\ path = <<>> \/ Head(path) = Slash

\* C12 as stated (group = composed path): for every prefix and path, Route
\* called on the node Group(prefix) returned gives a tree that answers every
\* lookup of a non-empty verb as the tree of Route(verb, prefix + path) on the
\* root does.
C12_GroupComposesAll ==
    (IsRoute /\ last.on # Root) =>
       \A g \in GroupsAt(last.on) : SameLookups(nodes, ComposedTree(g.path))

\* C12 (group = composed path, amended): the same, for a prefix that does not
\* end with a slash and a path that is empty or begins with a slash.
C12_GroupComposes ==
    (IsRoute /\ last.on # Root) =>
       \A g \in GroupsAt(last.on) :
          MeetInOneSlash(g.path, last.path) => SameLookups(nodes, ComposedTree(g.path))

\* a route registered under a group is found under prefix + path
C12_Witness ==
    /\ IsRoute
    /\ last.on # Root
    /\ last.err.Err = ErrNone
    /\ \E g \in GroupsAt(last.on) :
         /\ MeetInOneSlash(g.path, last.path)
         /\ Find(nodes, Root, last.method, g.path \o last.path).ok
         /\ Find(ComposedTree(g.path), Root, last.method, g.path \o last.path).ok

\* the node the segments segs lead to from n in the tree ns, as addRoute walks
RECURSIVE NodeAt(_, _, _)
NodeAt(ns, n, segs) ==
    IF n = Nil \/ segs = <<>>
    THEN n
    ELSE LET kind == KindOf(Head(segs))
             next == IF kind = "Param" THEN ns[n].param
                     ELSE IF kind = "Wildcard" THEN ns[n].wildcard
                     ELSE firstWithPath(ns, ns[n].static, Head(segs))
         IN NodeAt(ns, next, Tail(segs))

IsGroup == last.op \in {"Group", "EngineGroup"}

\* the prefix of the last Group call reached a node the empty verb was bound at
SecondGroup ==
    LET d == NodeAt(last.before, Root, SegmentsOf(last.path)) IN
    /\ d # Nil
    /\ "" \in DOMAIN last.before[d].handlers

\* C20 (groups bind the empty verb): a successful Group binds the nil handler
\* for the empty verb at the prefix node; a Group call whose prefix reaches a
\* node so bound returns RouteAlreadyExists and no node and leaves the tree,
\* middleware included, as it was; Engine.Group then returns the nil group.
C20_GroupOnce ==
    /\ (last.op = "Group" /\ ~SecondGroup) =>
          /\ last.err.Err = ErrNone
          /\ "" \in DOMAIN nodes[last.node].handlers
          /\ nodes[last.node].handlers[""] = NilHandler
    /\ (last.op = "Group" /\ SecondGroup) =>
          /\ last.err.Err = ErrRouteAlreadyExists
          /\ last.node = Nil
          /\ nodes = last.before
    /\ (last.op = "EngineGroup" /\ ~SecondGroup) =>
          /\ last.group # Nil
          /\ "" \in DOMAIN nodes[last.group].handlers
    /\ (last.op = "EngineGroup" /\ SecondGroup) =>
          /\ last.group = Nil
          /\ nodes = last.before

\* Engine.Group returns nil for a prefix written otherwise than the first one
C20_Witness ==
    /\ last.op = "EngineGroup"
    /\ SecondGroup
    /\ last.group = Nil
    /\ \E g \in registered : g.method = "" /\ g.path # last.path

\* ------------------------------------------------------------------- names
(***************************************************************************)
(* SpecNames: routes whose parameter and wildcard segments are spelled     *)
(* with two names at one position, and a route that continues after a      *)
(* wildcard segment, registered on the root and looked up.                 *)
(***************************************************************************)
NamePaths ==
    { <<Slash>>, Rel(<<sA>>), Abs(<<sA>>) \o <<Slash>>,
      Abs(<<sA, sPX>>), Abs(<<sA, sPY>>), Abs(<<sA, sW>>), Abs(<<sA, sV>>),
      Abs(<<sA, sW, sB>>) }

NameFindPaths ==
    { <<Slash>>, Abs(<<sA>>), Abs(<<sA, sC>>), Abs(<<sA, sC, sB>>),
      Abs(<<sA, sC, sD>>), Abs(<<sA, sW, sB>>) }

\* root.Route(method, path, handler, middleware)
NamedRouteCall ==
    /\ nCalls < MaxCalls
    /\ \E method \in Verbs, path \in NamePaths :
         LET handler     == nCalls + 1
             middlewares == << <<"route", handler>> >>
             r           == Route(nodes, Root, method, path, handler, middlewares)
         IN /\ nodes' = r.nodes
            /\ last' = [ op |-> "Route", method |-> method, path |-> path,
                         handler |-> handler, middlewares |-> middlewares,
                         on |-> Root, node |-> r.node, err |-> r.err, before |-> nodes ]
            /\ registered' =
                 IF r.err.Err = ErrNone
                 THEN registered \cup
                        {[method |-> method, path |-> path, handler |-> handler,
                          node |-> r.node, on |-> Root]}
                 ELSE registered
    /\ nCalls' = nCalls + 1

\* root.Find(method, path)
NamedFindCall ==
    /\ last.op # "Find"
    /\ \E method \in Verbs, path \in NameFindPaths :
         last' = [ op |-> "Find", method |-> method, path |-> path,
                   res |-> Find(nodes, Root, method, path) ]
    /\ UNCHANGED <<nodes, nCalls, registered>>

NextNames == NamedRouteCall \/ NamedFindCall

SpecNames == Init /\ [][NextNames]_vars

\* a path written with exactly one leading slash
OneLeadingSlash(path) ==
    IF path = <<>> THEN <<Slash>>
    ELSE IF Head(path) = Slash THEN path
    ELSE <<Slash>> \o path

\* a successful Route call on the root
IsRootRoute == IsRoute /\ last.on = Root /\ last.err.Err = ErrNone

NoTrailingSlash(path) ==
    path = <<>> \/ path = <<Slash>> \/ path[Len(path)] # Slash

\* every segment of the path is the text of the node at its position below n
FirstSpelling(n, path) ==
    LET segs == SegmentsOf(path)
        rp   == RootPath(n)
    IN /\ Len(rp) = Len(segs) + 1
       /\ \A i \in 1..Len(segs) : nodes[rp[i + 1]].path = segs[i]

RECURSIVE Respell(_, _, _)
Respell(ns, n, segs) ==
    IF segs = <<>>
    THEN <<>>
    ELSE LET next == IF n = Nil THEN Nil ELSE NodeAt(ns, n, <<Head(segs)>>)
         IN <<IF next = Nil THEN Head(segs) ELSE ns[next].path>>
              \o Respell(ns, next, Tail(segs))

\* the last Route call names a parameter or wildcard position otherwise than
\* the tree before the call does
OtherName == IsRoute /\ Respell(last.before, Root, SegmentsOf(last.path)) # SegmentsOf(last.path)

\* the successful registrations that went through node m
Through(m) ==
    {r \in registered : \E i \in 1..Len(RootPath(r.node)) : RootPath(r.node)[i] = m}

\* the name the first registration through node m used at the position of m
FirstName(m) ==
    LET first == CHOOSE r \in Through(m) : \A q \in Through(m) : r.handler <= q.handler
        depth == Len(RootPath(m)) - 1
    IN getRouteTypeFromSegment(SegmentsOf(first.path)[depth]).paramName

\* no Route call renames, retypes or replaces a node the tree had
NoRename ==
    IsRoute =>
      \A m \in 1..Len(last.before) :
         /\ nodes[m].path = last.before[m].path
         /\ nodes[m].paramName = last.before[m].paramName
         /\ nodes[m].routeType = last.before[m].routeType
         /\ last.before[m].param # Nil => nodes[m].param = last.before[m].param
         /\ last.before[m].wildcard # Nil => nodes[m].wildcard = last.before[m].wildcard

\* every capture of a lookup is bound under the first name of its position
FirstNameBinds ==
    IsFind =>
      \A i \in 1..Len(last.res.trace) :
         LET e == last.res.trace[i] IN
         /\ e.ev = "param" => e.name = FirstName(nodes[e.at].param)
         /\ e.ev = "wildcard" => e.name = FirstName(nodes[e.at].wildcard)

\* C16 as stated (first name wins): the parameter or wildcard child is created
\* once and reused, a later registration that uses another name at the
\* position succeeds without error and renames nothing, and lookups bind the
\* capture to the first name only.
C16_FirstNameWinsAll ==
    /\ NoRename
    /\ OtherName => last.err.Err = ErrNone
    /\ FirstNameBinds

\* C16 (first name wins, amended): the same, where a later registration that
\* uses another name is handled as the registration spelled with the first
\* name is: it fails, with RouteAlreadyExists, only when the verb is already
\* bound at the destination.
C16_FirstNameWins ==
    /\ NoRename
    /\ OtherName =>
         LET alt == Route(last.before, Root, last.method,
                          Abs(Respell(last.before, Root, SegmentsOf(last.path))),
                          last.handler, last.middlewares)
         IN /\ nodes = alt.nodes
            /\ last.node = alt.node
            /\ last.err.Err = alt.err.Err
            /\ last.err.Err # ErrNone =>
                 /\ last.err.Err = ErrRouteAlreadyExists
                 /\ \E r \in registered :
                      /\ r.method = last.method
                      /\ r.node = NodeAt(last.before, Root, SegmentsOf(last.path))
    /\ FirstNameBinds

\* a lookup through a parameter child that was registered under two names
\* binds the first name
C16_Witness ==
    /\ IsFind
    /\ last.res.ok
    /\ \E r1, r2 \in registered :
         /\ r1.node = r2.node
         /\ r1.node = last.res.route.node
         /\ r1.path = Abs(<<sA, sPX>>)
         /\ r2.path = Abs(<<sA, sPY>>)
         /\ r2.handler < r1.handler
         /\ last.res.route.Handler = r1.handler
         /\ DOMAIN last.res.route.PathParams = {<<"y">>}

\* n has a wildcard node strictly above it
BelowWildcard(n) ==
    \E i \in 1..(Len(RootPath(n)) - 1) : nodes[RootPath(n)[i]].routeType = "Wildcard"

\* C17 (the wildcard is terminal): a lookup resolved through a wildcard child
\* succeeds only if the verb is bound on the wildcard node, whose handler it
\* returns, and no lookup returns a handler registered on a path that
\* continues after a wildcard segment.
C17_WildcardTerminal ==
    IsFind =>
      LET tr == last.res.trace IN
      /\ (tr # <<>> /\ tr[Len(tr)].ev = "wildcard" /\ last.res.ok) =>
            LET w == nodes[tr[Len(tr)].at].wildcard IN
            /\ last.method \in DOMAIN nodes[w].handlers
            /\ last.res.route.Handler = nodes[w].handlers[last.method]
            /\ last.res.route.node = w
      /\ last.res.ok =>
            /\ ~BelowWildcard(last.res.route.node)
            /\ \A r \in registered :
                 BelowWildcard(r.node) => last.res.route.Handler # r.handler

\* a lookup of a path that continues after the wildcard position fails for
\* the verb bound below the wildcard and is resolved by the wildcard node for
\* the other verb
C17_Witness ==
    /\ IsFind
    /\ last.path = Abs(<<sA, sC, sB>>)
    /\ last.res.ok
    /\ last.res.trace[Len(last.res.trace)].ev = "wildcard"
    /\ \E r \in registered :
         /\ BelowWildcard(r.node)
         /\ r.method # last.method
         /\ ~Find(nodes, Root, r.method, last.path).ok

\* ------------------------------------------------------ static commitment
\* m is n or lies below n
InSubtree(n, m) == m = n \/ IsAncestor(n, m)

\* what find on the static child of the root gives for the rest of the
\* looked-up path, when a static child has the text of the first segment
StaticChildResult ==
    LET sp    == getPathSegment(StripSlash(last.path))
        child == firstWithPath(nodes, nodes[Root].static, sp.segment)
    IN [ child  |-> child,
         result |-> IF child = Nil THEN [err |-> ErrRouteNotFound]
                    ELSE find(nodes, child, NewRoute(last.method, last.path),
                              last.method, sp.remaining) ]

MaxSegLen == 3

SegmentChars == {":", "*", "{", "}", "x"}

Segments == UNION {[1..k -> SegmentChars] : k \in 0..MaxSegLen}

InitClassify ==
    /\ nodes = <<NewRouteNode(<<>>, "None", <<>>, Nil)>>
    /\ last \in {[op |-> "Segment", segment |-> segment] : segment \in Segments}
    /\ nCalls = 0
    /\ registered = {}

\* getRouteTypeFromSegment(segment)
ClassifyCall ==
    /\ last.op = "Segment"
    /\ last' = [ op |-> "Classify", segment |-> last.segment,
                 res |-> getRouteTypeFromSegment(last.segment) ]
    /\ UNCHANGED <<nodes, nCalls, registered>>

NextClassify == ClassifyCall

SpecClassify == InitClassify /\ [][NextClassify]_vars

\* C18 (classifier): a segment :name is Parameter with name name, a segment
\* *name is Wildcard with name name, any other segment is Static with the
\* empty name, and the classifier returns exactly this one kind and name.
C18_Classifier ==
    last.op = "Classify" =>
      LET segment == last.segment
          rest    == SubSeq(segment, 2, Len(segment))
      IN last.res =
           IF segment # <<>> /\ segment[1] = ":"
           THEN [routeType |-> "Param", paramName |-> rest]
           ELSE IF segment # <<>> /\ segment[1] = "*"
           THEN [routeType |-> "Wildcard", paramName |-> rest]
           ELSE [routeType |-> "Static", paramName |-> <<>>]

\* -------------------------------------------------------------- dispatcher
(***************************************************************************)
(* SpecServe: the tree of the engine is built with Route and Use and       *)
(* requests are dispatched on it.                                          *)
(***************************************************************************)
ServePaths == { Abs(<<sA>>), Abs(<<sA, sB>>), Abs(<<sA, sC>>), Abs(<<sC, sD>>) }

\* engine.ServeHTTP(w, r) with r.Method = method and r.URL.Path = path
ServeCall ==
    /\ last.op # "Serve"
    /\ \E method \in Verbs, path \in ServePaths :
         last' = [ op |-> "Serve", method |-> method, path |-> path,
                   out |-> ServeHTTP(nodes, method, path) ]
    /\ UNCHANGED <<nodes, nCalls, registered>>

NextServe == RouteCall \/ UseCall \/ ServeCall

SpecServe == Init /\ [][NextServe]_vars

\* C14 (dispatch): a request makes one lookup; when it succeeds, every
\* middleware of the returned chain runs, the root's first, and then the
\* handler, and the context carries the captured parameter mapping.
C14_ChainRuns ==
    last.op = "Serve" =>
      /\ Len(last.out.lookups) = 1
      /\ last.out.lookups[1].ok =>
           LET route == last.out.lookups[1].route IN
           /\ last.out.ran = route.Middlewares \o <<route.Handler>>
           /\ last.out.PathParams = route.PathParams

\* ------------------------------------------------------ concurrent lookups
(***************************************************************************)
(* SpecLookups: Route calls build the tree; then the lookups of Lookups    *)
(* run on it interleaved step by step.  A Route call ends the lookups in   *)
(* progress, so no registration runs while a lookup does.                  *)
(***************************************************************************)
Lookups == {1, 2}

ConcVerbs == {"GET"}

ConcRoutePaths ==
    { Abs(<<sA, sB>>), Abs(<<sA, sPX>>), Abs(<<sPX, sPY>>), Abs(<<sPX, sW>>) }

ConcFindPaths ==
    { Abs(<<sA, sB>>), Abs(<<sA, sC>>), Abs(<<sC, sD>>), Abs(<<sC, sD, sE>>) }

\* root.Route(method, path, handler, middleware)
ConcRouteCall ==
    /\ nCalls < MaxCalls
    /\ \E method \in ConcVerbs, path \in ConcRoutePaths :
         LET handler     == nCalls + 1
             middlewares == << <<"route", handler>> >>
             r           == Route(nodes, Root, method, path, handler, middlewares)
         IN /\ nodes' = r.nodes
            /\ last' = [ op |-> "Route", method |-> method, path |-> path,
                         handler |-> handler, middlewares |-> middlewares,
                         on |-> Root, node |-> r.node, err |-> r.err, before |-> nodes ]
            /\ registered' =
                 IF r.err.Err = ErrNone
                 THEN registered \cup
                        {[method |-> method, path |-> path, handler |-> handler,
                          node |-> r.node, on |-> Root]}
                 ELSE registered
    /\ nCalls' = nCalls + 1

\* the lookups enter root.Find
StartLookups ==
    /\ last.op # "Lookups"
    /\ \E method \in ConcVerbs, paths \in [Lookups -> ConcFindPaths] :
         last' = [ op |-> "Lookups",
                   procs |-> [i \in Lookups |-> NewLookup(method, paths[i])] ]
    /\ UNCHANGED <<nodes, nCalls, registered>>

\* one lookup takes one step
LookupStep ==
    /\ last.op = "Lookups"
    /\ \E i \in Lookups :
         /\ last.procs[i].pc # "done"
         /\ last' = [last EXCEPT !.procs = stepLookups(nodes, @, i)]
    /\ UNCHANGED <<nodes, nCalls, registered>>

NextLookups == ConcRouteCall \/ StartLookups \/ LookupStep

SpecLookups == Init /\ [][NextLookups]_vars

\* every finished lookup has the result Find gives when it runs alone
AsAlone ==
    last.op = "Lookups" =>
      \A i \in Lookups :
         last.procs[i].pc = "done" =>
           LET alone == Find(nodes, Root, last.procs[i].method, last.procs[i].path) IN
           /\ (last.procs[i].err = ErrNone) = alone.ok
           /\ alone.ok => last.procs[i].route = alone.route

\* C13 (lookups are isolated): no step of a lookup changes a node, and each of
\* the interleaved lookups returns the route (handler, middleware chain,
\* parameter mapping) it returns when run alone.
C13_LookupsIsolated ==
    /\ []AsAlone
    /\ [][last'.op = "Lookups" => nodes' = nodes]_vars

\* two finished lookups that both backtracked or captured, with different captures
C13_Witness ==
    /\ last.op = "Lookups"
    /\ \A i \in Lookups : last.procs[i].pc = "done" /\ last.procs[i].err = ErrNone
    /\ last.procs[1].route.PathParams # last.procs[2].route.PathParams
    /\ \A i \in Lookups : DOMAIN last.procs[i].route.PathParams # {}
    /\ \E i \in Lookups : last.procs[i].path = Abs(<<sC, sD, sE>>)

====
